---- MODULE Spec2Model ----
(***************************************************************************)
(* Model of glance_store: the lichbd command executor and block-volume     *)
(* operations (glance_store/lichbd.py) and the scheme registry and         *)
(* dispatch facade (glance/store/__init__.py).                             *)
(*                                                                         *)
(* Two specifications share the variables: SpecShell runs one block-volume *)
(* operation, one external process per step; SpecStore runs registry       *)
(* population and facade calls, one call per step.                         *)
(***************************************************************************)
EXTENDS Integers, Sequences, FiniteSets, TLC

VARIABLES
    \* ---- lichbd.py ----
    op,         \* the block-volume operation in progress
    pc,         \* "idle", "try" (call_try loop body), "sleep", "ret", "rm", "done"
    try_num,    \* call_try: number of attempts allowed
    i,          \* call_try: loop index
    shellcmd,   \* call_try: local shellcmd (the last ShellCmd run)
    stage,      \* lichbd_copy: the command its current call_try runs
    outer,      \* lichbd_copy: loop index of range(5)
    copycmd,    \* lichbd_copy: local shellcmd (result of the last copy call_try)
    dstRaw,     \* lichbd_copy: dst_path.startswith(":")
    nproc,      \* processes spawned by the operation so far
    natt,       \* processes spawned by the current call_try
    nsleep,     \* time.sleep(1) calls made by the current call_try
    ncopy,      \* executions of the copy command
    copyFails,  \* copy call_try results with a non-zero exit code
    cleanups,   \* cleanup invocations (rm or lichbd_unlink) made by lichbd_copy
    nclean,     \* processes spawned by the current cleanup invocation
    lastCopy,   \* the last process that ran the copy command
    lastClean,  \* the last process that ran a cleanup command of lichbd_copy
    outcome,    \* how the operation ended
    exception,   \* call: the exception argument
    dst_path,       \* lichbd_copy: the dst_path argument
    cleanTarget,    \* lichbd_copy: the path its last cleanup command names
    \* ---- glance/store/__init__.py ----
    SCHEME_TO_CLS_MAP,  \* location.SCHEME_TO_CLS_MAP
    drivers,            \* the installed store drivers (environment)
    conf_stores,        \* conf.glance_store.stores of the last create_stores
    LOG,                \* "Registering store" debug records, in order
    loaded,             \* how often each name was loaded by the last create_stores
    ninst,              \* store instances constructed so far
    npop,               \* create_stores calls so far
    req,                \* the last facade call: operation, inputs, backend outcome
    inner,              \* outcome of the delete_from_backend inside safe_delete
    result,             \* outcome of the last facade call
    delayed_delete,     \* CONF.delayed_delete as the last call read it
    file_queue,         \* entries the last call handed to the scrub queue
    image_id,           \* delete_image_from_backend: its image_id argument
    size,               \* _check_location_uri: the size the store reported
    image,              \* _set_image_size: image.size before and after
    locations,          \* _set_image_size: sizes of the candidate locations
    nqueried,           \* _set_image_size: locations whose size was queried
    metadata,           \* store_add_to_backend: the metadata store.add returned
    meta_result         \* outcome of the last metadata validation

shellAux == <<exception, dst_path, cleanTarget>>
shellVars == <<op, pc, try_num, i, shellcmd, stage, outer, copycmd, dstRaw,
               nproc, natt, nsleep, ncopy, copyFails, cleanups, nclean,
               lastCopy, lastClean, outcome, shellAux>>
storeAux == <<delayed_delete, file_queue, image_id, size, image, locations,
              nqueried>>
storeVars == <<SCHEME_TO_CLS_MAP, drivers, conf_stores, LOG, loaded, ninst,
               npop, req, inner, result, storeAux>>
metaVars == <<metadata, meta_result>>
vars == <<shellVars, storeVars, metaVars>>

----------------------------------------------------------------------------
(* lichbd.py                                                               *)

ENOENT == 2
EEXIST == 17
DefaultTryNum == 10
CopyAttempts == 5

\* Largest explicit try_num argument given to call_try.
MaxTryNum == 3

\* Exit codes a process may end with.
RetCodes == {0, 1, ENOENT, EEXIST}

\* Python's None where a ShellCmd is expected.
NoneCmd == [cmd |-> "None", return_code |-> -1, pid |-> 0]

\* A ShellCmd after communicate(): command, exit code, and the captured
\* output, identified by the process that produced it.
ShellCmd(cmd, rc, pid) == [cmd |-> cmd, return_code |-> rc, pid |-> pid]

NoOutcome == [kind |-> "none", exc |-> "", val |-> NoneCmd]
Return(sc) == [kind |-> "return", exc |-> "", val |-> sc]

\* raise ShellError(cmd, return code, stdout, stderr of shellcmd)
raise_exp(sc) == [kind |-> "raise", exc |-> "ShellError", val |-> sc]

\* ShellCmd.__call__ raising on every non-zero exit code, asked or not.
ShellCmd_call_always(sc, is_exception) ==
    IF sc.return_code # 0 THEN raise_exp(sc) ELSE Return(sc)

\* ShellCmd.__call__(is_exception) after the process ended.
ShellCmd_call(sc, is_exception) ==
    IF is_exception /\ sc.return_code # 0 THEN raise_exp(sc) ELSE Return(sc)

Ops == {"call_try", "lichbd_mkdir", "lichbd_create_raw", "lichbd_copy",
        "lichbd_unlink", "lichbd_file_size", "lichbd_cluster_stat"}

\* The command each operation hands to call_try.
CmdOf(o) ==
    CASE o = "call_try" -> "cmd"
      [] o = "lichbd_mkdir" -> "lich --mkdir"
      [] o = "lichbd_create_raw" -> "qemu-img create"
      [] o = "lichbd_copy" -> "lich --copy"
      [] o = "lichbd_unlink" -> "lich --unlink"
      [] o = "lichbd_file_size" -> "lich --stat"
      [] o = "lichbd_cluster_stat" -> "lich.cluster --stat"

\* Python's s.startswith(ch) and s.lstrip(ch) for a one-character ch.
startswith(s, ch) == Len(s) > 0 /\ s[1] = ch

RECURSIVE lstrip(_, _)
lstrip(s, ch) == IF startswith(s, ch) THEN lstrip(Tail(s), ch) ELSE s

\* The sentinel that marks a raw local destination path.
Colon == <<":">>[1]

\* Paths handed to lichbd_copy; other operations take the plain path.
SrcPath == <<"/", "s">>
PlainPath == <<"/", "d">>
DstPaths == {PlainPath, <<":", "/", "d">>, <<":", ":", "/", "d">>}

InitShell ==
    /\ exception = FALSE /\ dst_path = PlainPath /\ cleanTarget = << >>
    /\ op = "none" /\ pc = "idle"
    /\ try_num = 0 /\ i = 0 /\ shellcmd = NoneCmd
    /\ stage = "" /\ outer = 0 /\ copycmd = NoneCmd /\ dstRaw = FALSE
    /\ nproc = 0 /\ natt = 0 /\ nsleep = 0 /\ ncopy = 0
    /\ copyFails = 0 /\ cleanups = 0 /\ nclean = 0
    /\ lastCopy = NoneCmd /\ lastClean = NoneCmd /\ outcome = NoOutcome

\* call_try entry: try_num defaults to 10, shellcmd = None, loop index 0.
\* range(0) runs no iteration, so the loop is left at once.
enter_call_try(n) ==
    /\ try_num' = n
    /\ i' = 0
    /\ shellcmd' = NoneCmd
    /\ natt' = 0
    /\ nsleep' = 0
    /\ pc' = IF n > 0 THEN "try" ELSE "ret"

\* A caller invokes one operation.  The block-volume operations pass no
\* try_num; a direct call_try caller passes None or an explicit number.
Begin ==
    /\ pc = "idle"
    /\ \E o \in Ops, dst \in DstPaths,
          n \in (0..MaxTryNum) \cup {DefaultTryNum} :
        /\ o # "call_try" => n = DefaultTryNum
        /\ o # "lichbd_copy" => dst = PlainPath
        /\ op' = o
        /\ dst_path' = dst
        /\ dstRaw' = startswith(dst, Colon)
        /\ stage' = CmdOf(o)
        /\ enter_call_try(n)
    /\ UNCHANGED <<outer, copycmd, nproc, ncopy, copyFails, cleanups, nclean,
                   lastCopy, lastClean, outcome, exception, cleanTarget>>
    /\ UNCHANGED <<storeVars, metaVars>>

\* call_try without the break on exit code 0.
call_try_no_break ==
    /\ pc = "try"
    /\ i < try_num
    /\ \E rc \in RetCodes :
        LET sc == ShellCmd(stage, rc, nproc + 1) IN
        /\ shellcmd' = sc
        /\ lastCopy' = IF stage = "lich --copy" THEN sc ELSE lastCopy
        /\ lastClean' = IF stage = "lich --unlink" /\ op = "lichbd_copy"
                        THEN sc ELSE lastClean
        /\ pc' = "sleep"
    /\ nproc' = nproc + 1
    /\ natt' = natt + 1
    /\ ncopy' = IF stage = "lich --copy" THEN ncopy + 1 ELSE ncopy
    /\ nclean' = IF stage = "lich --unlink" /\ op = "lichbd_copy"
                 THEN nclean + 1 ELSE nclean
    /\ UNCHANGED <<op, try_num, i, stage, outer, copycmd, dstRaw, nsleep,
                   copyFails, cleanups, outcome>>
    /\ UNCHANGED <<shellAux, storeVars, metaVars>>

\* One iteration of the call_try loop up to the break test:
\* shellcmd = __call_shellcmd(cmd, False, workdir); break on exit code 0.
call_try ==
    /\ pc = "try"
    /\ i < try_num
    /\ \E rc \in RetCodes :
        LET sc == ShellCmd(stage, rc, nproc + 1) IN
        /\ shellcmd' = sc
        /\ lastCopy' = IF stage = "lich --copy" THEN sc ELSE lastCopy
        /\ lastClean' = IF stage = "lich --unlink" /\ op = "lichbd_copy"
                        THEN sc ELSE lastClean
        /\ pc' = IF rc = 0 THEN "ret" ELSE "sleep"
    /\ nproc' = nproc + 1
    /\ natt' = natt + 1
    /\ ncopy' = IF stage = "lich --copy" THEN ncopy + 1 ELSE ncopy
    /\ nclean' = IF stage = "lich --unlink" /\ op = "lichbd_copy"
                 THEN nclean + 1 ELSE nclean
    /\ UNCHANGED <<op, try_num, i, stage, outer, copycmd, dstRaw, nsleep,
                   copyFails, cleanups, outcome>>
    /\ UNCHANGED <<shellAux, storeVars, metaVars>>

\* The rest of a failed iteration: time.sleep(1), then the next index.
call_try_sleep ==
    /\ pc = "sleep"
    /\ nsleep' = nsleep + 1
    /\ i' = i + 1
    /\ pc' = IF i + 1 < try_num THEN "try" ELSE "ret"
    /\ UNCHANGED <<op, try_num, shellcmd, stage, outer, copycmd, dstRaw, nproc,
                   natt, ncopy, copyFails, cleanups, nclean, lastCopy,
                   lastClean, outcome>>
    /\ UNCHANGED <<shellAux, storeVars, metaVars>>

finish(o) ==
    /\ outcome' = o
    /\ pc' = "done"

\* call_try returning to a direct caller: return shellcmd.
call_try_return ==
    /\ pc = "ret" /\ op = "call_try"
    /\ finish(Return(shellcmd))
    /\ UNCHANGED <<op, try_num, i, shellcmd, stage, outer, copycmd, dstRaw,
                   nproc, natt, nsleep, ncopy, copyFails, cleanups, nclean,
                   lastCopy, lastClean>>
    /\ UNCHANGED <<shellAux, storeVars, metaVars>>

\* The EEXIST policy with the not-found status in place of EEXIST.
tolerate_EEXIST_wrong(sc) ==
    IF sc.return_code # 0
    THEN IF sc.return_code = ENOENT THEN Return(NoneCmd) ELSE raise_exp(sc)
    ELSE Return(NoneCmd)

\* Exit-code policy of lichbd_mkdir and lichbd_create_raw.
tolerate_EEXIST(sc) ==
    IF sc.return_code # 0
    THEN IF sc.return_code = EEXIST THEN Return(NoneCmd) ELSE raise_exp(sc)
    ELSE Return(NoneCmd)

\* The ENOENT policy with no tolerated status.
tolerate_ENOENT_wrong(sc) ==
    IF sc.return_code # 0 THEN raise_exp(sc) ELSE Return(NoneCmd)

\* Exit-code policy of lichbd_unlink.
tolerate_ENOENT(sc) ==
    IF sc.return_code # 0
    THEN IF sc.return_code = ENOENT THEN Return(NoneCmd) ELSE raise_exp(sc)
    ELSE Return(NoneCmd)

\* The stat policy raising only on the generic failure status 1.
raise_nonzero_only1(sc) ==
    IF sc.return_code = 1 THEN raise_exp(sc) ELSE Return(sc)

\* Exit-code policy of lichbd_file_size and lichbd_cluster_stat.
raise_nonzero(sc) ==
    IF sc.return_code # 0 THEN raise_exp(sc) ELSE Return(sc)

lichbd_mkdir ==
    /\ pc = "ret" /\ op = "lichbd_mkdir"
    /\ finish(tolerate_EEXIST(shellcmd))
    /\ UNCHANGED <<op, try_num, i, shellcmd, stage, outer, copycmd, dstRaw,
                   nproc, natt, nsleep, ncopy, copyFails, cleanups, nclean,
                   lastCopy, lastClean>>
    /\ UNCHANGED <<shellAux, storeVars, metaVars>>

lichbd_create_raw ==
    /\ pc = "ret" /\ op = "lichbd_create_raw"
    /\ finish(tolerate_EEXIST(shellcmd))
    /\ UNCHANGED <<op, try_num, i, shellcmd, stage, outer, copycmd, dstRaw,
                   nproc, natt, nsleep, ncopy, copyFails, cleanups, nclean,
                   lastCopy, lastClean>>
    /\ UNCHANGED <<shellAux, storeVars, metaVars>>

lichbd_unlink ==
    /\ pc = "ret" /\ op = "lichbd_unlink"
    /\ finish(tolerate_ENOENT(shellcmd))
    /\ UNCHANGED <<op, try_num, i, shellcmd, stage, outer, copycmd, dstRaw,
                   nproc, natt, nsleep, ncopy, copyFails, cleanups, nclean,
                   lastCopy, lastClean>>
    /\ UNCHANGED <<shellAux, storeVars, metaVars>>

\* long(shellcmd.stdout.strip()) raises ValueError when the output is not
\* a number.
lichbd_file_size ==
    /\ pc = "ret" /\ op = "lichbd_file_size"
    /\ \E numeric \in BOOLEAN :
        LET r == raise_nonzero(shellcmd) IN
        finish(IF r.kind = "raise" \/ numeric THEN r
               ELSE [kind |-> "raise", exc |-> "ValueError", val |-> shellcmd])
    /\ UNCHANGED <<op, try_num, i, shellcmd, stage, outer, copycmd, dstRaw,
                   nproc, natt, nsleep, ncopy, copyFails, cleanups, nclean,
                   lastCopy, lastClean>>
    /\ UNCHANGED <<shellAux, storeVars, metaVars>>

lichbd_cluster_stat ==
    /\ pc = "ret" /\ op = "lichbd_cluster_stat"
    /\ finish(raise_nonzero(shellcmd))
    /\ UNCHANGED <<op, try_num, i, shellcmd, stage, outer, copycmd, dstRaw,
                   nproc, natt, nsleep, ncopy, copyFails, cleanups, nclean,
                   lastCopy, lastClean>>
    /\ UNCHANGED <<shellAux, storeVars, metaVars>>

\* The lichbd_copy loop running over one index more.
copy_next_six(k, sc) ==
    IF k < CopyAttempts
    THEN /\ outer' = k + 1
         /\ stage' = "lich --copy"
         /\ enter_call_try(DefaultTryNum)
         /\ UNCHANGED outcome
    ELSE /\ outer' = k + 1
         /\ finish(raise_exp(sc))
         /\ UNCHANGED <<stage, try_num, i, shellcmd, natt, nsleep>>

\* End of one pass of the lichbd_copy loop body: the next index of range(5)
\* runs the copy command again, and after the last index raise_exp(shellcmd)
\* reports the local shellcmd, the result of the last copy call_try.
copy_next(k, sc) ==
    IF k + 1 < CopyAttempts
    THEN /\ outer' = k + 1
         /\ stage' = "lich --copy"
         /\ enter_call_try(DefaultTryNum)
         /\ UNCHANGED outcome
    ELSE /\ outer' = k + 1
         /\ finish(raise_exp(sc))
         /\ UNCHANGED <<stage, try_num, i, shellcmd, natt, nsleep>>

\* The path the cleanup command of lichbd_copy is given: dst_path without
\* its leading ":" characters for rm -rf, dst_path itself for lichbd_unlink.
cleanup_path(dst) ==
    IF startswith(dst, Colon) THEN lstrip(dst, Colon) ELSE dst

\* lichbd_copy with no cleanup after the last failed attempt.
lichbd_copy_no_final_cleanup ==
    /\ pc = "ret" /\ op = "lichbd_copy" /\ stage = "lich --copy"
    /\ copycmd' = shellcmd
    /\ IF shellcmd.return_code = 0
       THEN /\ finish(Return(shellcmd))
            /\ UNCHANGED <<stage, try_num, i, shellcmd, natt, nsleep,
                           copyFails, cleanups, nclean, outer, cleanTarget>>
       ELSE /\ copyFails' = copyFails + 1
            /\ IF outer + 1 >= CopyAttempts
               THEN /\ copy_next(outer, shellcmd)
                    /\ UNCHANGED <<cleanups, nclean, cleanTarget>>
               ELSE /\ cleanups' = cleanups + 1
                    /\ nclean' = 0
                    /\ cleanTarget' = cleanup_path(dst_path)
                    /\ UNCHANGED <<outcome, outer>>
                    /\ IF dstRaw
                       THEN /\ stage' = "rm -rf"
                            /\ pc' = "rm"
                            /\ UNCHANGED <<try_num, i, shellcmd, natt, nsleep>>
                       ELSE /\ stage' = "lich --unlink"
                            /\ enter_call_try(DefaultTryNum)
    /\ UNCHANGED <<op, dstRaw, nproc, ncopy, lastCopy, lastClean,
                   exception, dst_path>>
    /\ UNCHANGED <<storeVars, metaVars>>

\* lichbd_copy treating a successful copy like a failed one.
lichbd_copy_no_return ==
    /\ pc = "ret" /\ op = "lichbd_copy" /\ stage = "lich --copy"
    /\ copycmd' = shellcmd
    /\ copyFails' = copyFails + 1
    /\ cleanups' = cleanups + 1
    /\ nclean' = 0
    /\ cleanTarget' = cleanup_path(dst_path)
    /\ UNCHANGED outcome
    /\ IF dstRaw
       THEN /\ stage' = "rm -rf"
            /\ pc' = "rm"
            /\ UNCHANGED <<try_num, i, shellcmd, natt, nsleep>>
       ELSE /\ stage' = "lich --unlink"
            /\ enter_call_try(DefaultTryNum)
    /\ UNCHANGED <<op, outer, dstRaw, nproc, ncopy, lastCopy, lastClean,
                   exception, dst_path>>
    /\ UNCHANGED <<storeVars, metaVars>>

\* lichbd_copy after its copy call_try returned: return on exit code 0,
\* otherwise start the cleanup of dst_path.
lichbd_copy ==
    /\ pc = "ret" /\ op = "lichbd_copy" /\ stage = "lich --copy"
    /\ copycmd' = shellcmd
    /\ IF shellcmd.return_code = 0
       THEN /\ finish(Return(shellcmd))
            /\ UNCHANGED <<stage, try_num, i, shellcmd, natt, nsleep,
                           copyFails, cleanups, nclean, cleanTarget>>
       ELSE /\ copyFails' = copyFails + 1
            /\ cleanups' = cleanups + 1
            /\ nclean' = 0
            /\ cleanTarget' = cleanup_path(dst_path)
            /\ UNCHANGED outcome
            /\ IF dstRaw
               THEN /\ stage' = "rm -rf"
                    /\ pc' = "rm"
                    /\ UNCHANGED <<try_num, i, shellcmd, natt, nsleep>>
               ELSE /\ stage' = "lich --unlink"
                    /\ enter_call_try(DefaultTryNum)
    /\ UNCHANGED <<op, outer, dstRaw, nproc, ncopy, lastCopy, lastClean,
                   exception, dst_path>>
    /\ UNCHANGED <<storeVars, metaVars>>

\* Cleanup of a ":"-prefixed destination: call("rm -rf ...") runs one
\* process and raises on a non-zero exit code.
lichbd_copy_rm ==
    /\ pc = "rm" /\ op = "lichbd_copy"
    /\ \E rc \in RetCodes :
        LET r == ShellCmd_call(ShellCmd("rm -rf", rc, nproc + 1), TRUE) IN
        /\ lastClean' = ShellCmd("rm -rf", rc, nproc + 1)
        /\ IF r.kind = "raise"
           THEN /\ finish(r)
                /\ UNCHANGED <<outer, stage, try_num, i, shellcmd, natt,
                               nsleep>>
           ELSE copy_next(outer, copycmd)
    /\ nproc' = nproc + 1
    /\ nclean' = nclean + 1
    /\ UNCHANGED <<op, copycmd, dstRaw, ncopy, copyFails, cleanups, lastCopy>>
    /\ UNCHANGED <<shellAux, storeVars, metaVars>>

\* The unlink cleanup with its failure ignored.
lichbd_copy_unlink_ignore ==
    /\ pc = "ret" /\ op = "lichbd_copy" /\ stage = "lich --unlink"
    /\ copy_next(outer, copycmd)
    /\ UNCHANGED <<op, copycmd, dstRaw, nproc, ncopy, copyFails, cleanups,
                   nclean, lastCopy, lastClean>>
    /\ UNCHANGED <<shellAux, storeVars, metaVars>>

\* Cleanup through lichbd_unlink, after its call_try returned.
lichbd_copy_unlink ==
    /\ pc = "ret" /\ op = "lichbd_copy" /\ stage = "lich --unlink"
    /\ LET r == tolerate_ENOENT(shellcmd) IN
        IF r.kind = "raise"
        THEN /\ finish(r)
             /\ UNCHANGED <<outer, stage, try_num, i, shellcmd, natt, nsleep>>
        ELSE copy_next(outer, copycmd)
    /\ UNCHANGED <<op, copycmd, dstRaw, nproc, ncopy, copyFails, cleanups,
                   nclean, lastCopy, lastClean>>
    /\ UNCHANGED <<shellAux, storeVars, metaVars>>

\* call(cmd, exception): one ShellCmd is constructed and called; it raises
\* ShellError for a non-zero exit code when exception is true and returns
\* the captured stdout otherwise.
call ==
    /\ pc = "idle"
    /\ \E e \in BOOLEAN, rc \in RetCodes :
        LET sc == ShellCmd("cmd", rc, nproc + 1) IN
        /\ exception' = e
        /\ shellcmd' = sc
        /\ finish(ShellCmd_call(sc, e))
    /\ op' = "call"
    /\ stage' = "cmd"
    /\ nproc' = nproc + 1
    /\ UNCHANGED <<try_num, i, outer, copycmd, dstRaw, natt, nsleep, ncopy,
                   copyFails, cleanups, nclean, lastCopy, lastClean,
                   dst_path, cleanTarget>>
    /\ UNCHANGED <<storeVars, metaVars>>

NextShell ==
    \/ Begin
    \/ call
    \/ call_try
    \/ call_try_sleep
    \/ call_try_return
    \/ lichbd_mkdir
    \/ lichbd_create_raw
    \/ lichbd_unlink
    \/ lichbd_file_size
    \/ lichbd_cluster_stat
    \/ lichbd_copy
    \/ lichbd_copy_rm
    \/ lichbd_copy_unlink

----------------------------------------------------------------------------
(* glance/store/__init__.py                                                *)

\* Largest number of create_stores calls in one run.
MaxPopulate == 2
\* Longest conf.glance_store.stores list.
MaxStores == 2
\* Longest list of candidate locations of an image.
MaxLocations == 2
\* Most nodes (leaves, lists and dicts) of a metadata tree.
MaxNodes == 4

\* Entry-point names that may be configured, and the schemes drivers claim.
\* Strings are sequences of characters, so that URI slicing is computed.
Names == {"a", "b"}
DriverSchemes == {<<"f">>, <<"h">>}
AllSchemes == DriverSchemes \cup {<<"x">>, << >>}

\* What the driver manager does for a name: construct the driver, fail with
\* RuntimeError, or let the driver's BadStoreConfiguration through.
LoadOutcomes == {"ok", "RuntimeError", "BadStoreConfiguration"}

DriverEnvs ==
    [Names -> {d \in [load : LoadOutcomes, schemes : SUBSET DriverSchemes] :
                   d.load # "ok" => d.schemes = {}}]

NoVal == [name |-> "", id |-> 0]
Ret(v) == [kind |-> "return", exc |-> "", val |-> v]
Exc(e) == [kind |-> "raise", exc |-> e, val |-> NoVal]
NoReq == [op |-> "none", uri |-> << >>, parse |-> "ok", bo |-> "ok"]

EmptyMap == [s \in {} |-> [store |-> NoVal, location_class |-> NoVal]]

\* conf.glance_store.stores: lists of names, duplicates allowed.
ConfLists == UNION {[1..n -> Names] : n \in 0..MaxStores}

Range(q) == {q[k] : k \in DOMAIN q}

\* The orders in which iterating set(conf.glance_store.stores) may yield
\* its elements.
Orders(S) ==
    {q \in [1..Cardinality(S) -> S] :
        \A a, b \in 1..Cardinality(S) : a # b => q[a] # q[b]}

\* location.register_scheme_map: every scheme of scheme_map is entered into
\* SCHEME_TO_CLS_MAP, replacing an earlier registration of the scheme.
register_scheme_map(map, scheme_map) ==
    [s \in DOMAIN map \cup DOMAIN scheme_map |->
        IF s \in DOMAIN scheme_map THEN scheme_map[s] ELSE map[s]]

\* _load_store: the driver manager's driver, a fresh instance; its
\* RuntimeError is answered with "raise DriverLoadFailure(...)", a name the
\* module never binds, so a NameError leaves _load_store; any other error
\* of the manager passes through.
_load_store(store_entry, n) ==
    CASE drivers[store_entry].load = "ok" ->
            Ret([name |-> store_entry, id |-> n + 1])
      [] drivers[store_entry].load = "RuntimeError" -> Exc("NameError")
      [] OTHER -> Exc(drivers[store_entry].load)

\* The scheme_map create_stores builds for one store instance.
scheme_map_of(store_instance, schemes) ==
    [s \in schemes |->
        [store |-> store_instance,
         location_class |-> [name |-> store_instance.name, id |-> 0]]]

\* The loop of create_stores over the remaining entries.  st carries the
\* registry, store_count, the debug log, the instance and load counters and
\* the exception that left the loop, if any.  "raise BackendException(...)"
\* names a class the module never binds: a NameError is what is raised.
RECURSIVE create_stores_loop(_, _)
create_stores_loop(order, st) ==
    IF order = << >> \/ st.exc # "" THEN st
    ELSE
      LET store_entry == Head(order)
          ld == _load_store(store_entry, st.ninst)
          st1 == [st EXCEPT !.loaded[store_entry] = @ + 1]
      IN
      IF ld.kind = "raise"
      THEN IF ld.exc = "BadStoreConfiguration"
           THEN create_stores_loop(Tail(order), st1)
           ELSE [st1 EXCEPT !.exc = ld.exc]
      ELSE
        LET store_instance == ld.val
            schemes == drivers[store_entry].schemes
            st2 == [st1 EXCEPT !.ninst = @ + 1]
        IN
        IF schemes = {}
        THEN [st2 EXCEPT !.exc = "NameError"]
        ELSE create_stores_loop(Tail(order),
               [st2 EXCEPT
                  !.log = Append(@, [store |-> store_instance,
                                     schemes |-> schemes]),
                  !.map = register_scheme_map(@,
                             scheme_map_of(store_instance, schemes)),
                  !.store_count = @ + 1])

\* create_stores(conf): iterate set(conf.glance_store.stores) in the order
\* the set yields, return store_count.
create_stores(conf, order) ==
    create_stores_loop(order,
        [map |-> SCHEME_TO_CLS_MAP, store_count |-> 0, log |-> LOG,
         ninst |-> ninst, loaded |-> [n \in Names |-> 0], exc |-> ""])

populate ==
    /\ req.op = "none"
    /\ npop < MaxPopulate
    /\ \E conf \in ConfLists :
        \E order \in Orders(Range(conf)) :
          LET st == create_stores(conf, order) IN
          /\ SCHEME_TO_CLS_MAP' = st.map
          /\ LOG' = st.log
          /\ ninst' = st.ninst
          /\ loaded' = st.loaded
          /\ conf_stores' = conf
          /\ req' = [NoReq EXCEPT !.op = "create_stores"]
          /\ result' = IF st.exc # "" THEN Exc(st.exc)
                       ELSE Ret([name |-> "store_count", id |-> st.store_count])
    /\ npop' = npop + 1
    /\ UNCHANGED <<drivers, inner>>
    /\ UNCHANGED <<storeAux, shellVars, metaVars>>

\* Python's s.find(ch): the 0-based index of the first ch, or -1.
RECURSIVE find_from(_, _, _)
find_from(s, ch, k) ==
    IF k > Len(s) THEN -1
    ELSE IF s[k] = ch THEN k - 1
    ELSE find_from(s, ch, k + 1)

find(s, ch) == find_from(s, ch, 1)

\* Python's s[0:stop]: a negative stop counts from the end.
slice0(s, stop) ==
    LET e == IF stop < 0 THEN (IF Len(s) + stop < 0 THEN 0 ELSE Len(s) + stop)
             ELSE (IF stop > Len(s) THEN Len(s) ELSE stop)
    IN SubSeq(s, 1, e)

\* get_store_from_scheme handing out the location class of the entry.
get_store_from_scheme_cls(scheme) ==
    IF scheme \notin DOMAIN SCHEME_TO_CLS_MAP
    THEN Exc("UnknownScheme")
    ELSE Ret(SCHEME_TO_CLS_MAP[scheme].location_class)

\* get_store_from_scheme(scheme)
get_store_from_scheme(scheme) ==
    IF scheme \notin DOMAIN SCHEME_TO_CLS_MAP
    THEN Exc("UnknownScheme")
    ELSE Ret(SCHEME_TO_CLS_MAP[scheme].store)

\* get_store_from_uri(uri): scheme = uri[0:uri.find('/') - 1]
get_store_from_uri(uri) ==
    get_store_from_scheme(slice0(uri, find(uri, <<"/">>[1]) - 1))

\* location.get_location_from_uri: the location parser either yields a
\* Location or fails with BadStoreUri.
ParseOutcomes == {"ok", "BadStoreUri"}
get_location_from_uri(uri, parse) ==
    IF parse = "ok" THEN Ret(NoVal) ELSE Exc(parse)

\* What a store method does when it is called: it returns, or it raises
\* NotImplementedError, NotFound or an internal error.
BackendOutcomes == {"ok", "NotImplementedError", "NotFound", "IOError"}
store_method(store, bo) == IF bo = "ok" THEN Ret(store) ELSE Exc(bo)

URIs == {<<"f", ":", "/", "/", "p">>, <<"h", ":", "/", "/", "p">>,
         <<"x", ":", "/", "/", "p">>, <<"f", "p">>}

\* try: return store.<method>(...) / except NotImplementedError: raise <kind>
translate(r, kind) ==
    IF r.kind = "raise" /\ r.exc = "NotImplementedError" THEN Exc(kind) ELSE r

get_from_backend(uri, parse, bo) ==
    LET loc == get_location_from_uri(uri, parse)
        store == get_store_from_uri(uri)
    IN IF loc.kind = "raise" THEN loc
       ELSE IF store.kind = "raise" THEN store
       ELSE translate(store_method(store.val, bo), "StoreGetNotSupported")

get_size_from_backend(uri, parse, bo) ==
    LET loc == get_location_from_uri(uri, parse)
        store == get_store_from_uri(uri)
    IN IF loc.kind = "raise" THEN loc
       ELSE IF store.kind = "raise" THEN store
       ELSE store_method(store.val, bo)

delete_from_backend(uri, parse, bo) ==
    LET loc == get_location_from_uri(uri, parse)
        store == get_store_from_uri(uri)
    IN IF loc.kind = "raise" THEN loc
       ELSE IF store.kind = "raise" THEN store
       ELSE translate(store_method(store.val, bo), "StoreDeleteNotSupported")

\* safe_delete_from_backend around the outcome d of delete_from_backend.
\* The except clauses are tried in order; the third names UnsupportedBackend,
\* which the module never binds, so an exception that reaches it is replaced
\* by the NameError of evaluating that name.
safe_delete_from_backend(d) ==
    IF d.kind = "return" THEN d
    ELSE IF d.exc = "NotFound" THEN Ret(NoVal)
    ELSE IF d.exc = "StoreDeleteNotSupported" THEN Ret(NoVal)
    ELSE Exc("NameError")

\* add_to_backend: get_store_from_scheme(context, scheme) passes two
\* arguments to a function of one parameter; the TypeError is raised before
\* the try block and before any store is looked up or called.
add_to_backend(scheme, bo) == Exc("TypeError")

\* set_acls: get_location_from_uri, get_store_from_location (which parses
\* the uri again), then get_store_from_scheme(context, scheme, loc): three
\* arguments to a function of one parameter, a TypeError before the try.
set_acls(uri, parse, bo) ==
    LET loc == get_location_from_uri(uri, parse)
    IN IF loc.kind = "raise" THEN loc ELSE Exc("TypeError")

NoInner == [kind |-> "none", exc |-> "", val |-> NoVal]

\* file_queue.add_location(image_id, uri): the scrub queue takes the entry.
add_location(queue, id, uri) == Append(queue, [image_id |-> id, uri |-> uri])

\* schedule_delayed_delete_from_backend(context, uri, image_id)
schedule_delayed_delete_from_backend(queue, uri, id) ==
    add_location(queue, id, uri)

\* delete_image_from_backend deleting at once whatever the flag says.
delete_image_from_backend_now(flag, queue, id, uri, parse, bo) ==
    LET d == delete_from_backend(uri, parse, bo)
        r == safe_delete_from_backend(d)
    IN [result |-> IF r.kind = "return" THEN Ret(NoVal) ELSE r,
        inner |-> d,
        queue |-> IF flag
                  THEN schedule_delayed_delete_from_backend(queue, uri, id)
                  ELSE queue]

\* delete_image_from_backend(context, store_api, image_id, uri), store_api
\* being this module: CONF.delayed_delete chooses between handing the entry
\* to the scrub queue and safe_delete_from_backend; neither value is
\* returned.  inner is the outcome of delete_from_backend when it ran.
delete_image_from_backend(flag, queue, id, uri, parse, bo) ==
    IF flag
    THEN [result |-> Ret(NoVal),
          inner |-> NoInner,
          queue |-> schedule_delayed_delete_from_backend(queue, uri, id)]
    ELSE LET d == delete_from_backend(uri, parse, bo)
             r == safe_delete_from_backend(d)
         IN [result |-> IF r.kind = "return" THEN Ret(NoVal) ELSE r,
             inner |-> d,
             queue |-> queue]

\* Sizes a store's get_size may report.
Sizes == {-1, 0, 1}

\* _check_location_uri treating a size of 0 as valid.
_check_location_uri_zero_ok(g, sz) ==
    IF g.kind = "return"
    THEN IF sz >= 0 THEN Ret(NoVal) ELSE Exc("BadStoreUri")
    ELSE IF g.exc \in {"UnknownScheme", "NotFound"} THEN Exc("BadStoreUri")
    ELSE g

\* _check_location_uri around the outcome g of get_size_from_backend, sz
\* being the size when g is a return: is_ok = size > 0; UnknownScheme and
\* NotFound are caught and give is_ok = False; not is_ok raises BadStoreUri;
\* any other exception of get_size_from_backend is not caught.
_check_location_uri(g, sz) ==
    IF g.kind = "return"
    THEN IF sz > 0 THEN Ret(NoVal) ELSE Exc("BadStoreUri")
    ELSE IF g.exc \in {"UnknownScheme", "NotFound"} THEN Exc("BadStoreUri")
    ELSE g

\* image.size: None or a number.
NoSize == [set |-> FALSE, n |-> 0]
Size(n) == [set |-> TRUE, n |-> n]
ImageSizes == {NoSize} \cup {Size(n) : n \in 0..2}
\* Python's truth value of image.size
truthy(sz) == sz.set /\ sz.n # 0

\* The sizes the backends report for the candidate locations, in order.
LocationLists == UNION {[1..n -> {0, 2}] : n \in 0..MaxLocations}

\* _set_image_size(context, image, locations): nothing is done for an image
\* whose size is set and non-zero or for an empty list of locations;
\* otherwise the first pass of the loop evaluates
\* glance.store.get_size_from_backend, and "glance" is a name the module
\* never binds (its import is commented out): the NameError leaves the
\* function before any location is queried.
_set_image_size(sz, locs) ==
    IF truthy(sz) \/ locs = << >>
    THEN [result |-> Ret(NoVal), size |-> sz, nqueried |-> 0]
    ELSE [result |-> Exc("NameError"), size |-> sz, nqueried |-> 0]

ImageIds == {"i1", "i2"}
NoImage == [size0 |-> NoSize, size |-> NoSize]

\* A facade call that empties the registry as it goes.
dispatch_forgetting(o, uri, parse, bo, r, d) ==
    /\ req.op = "none"
    /\ req' = [op |-> o, uri |-> uri, parse |-> parse, bo |-> bo]
    /\ result' = r
    /\ inner' = d
    /\ SCHEME_TO_CLS_MAP' = EmptyMap
    /\ UNCHANGED <<drivers, conf_stores, LOG, loaded, ninst, npop>>
    /\ UNCHANGED <<shellVars, metaVars>>

\* One call of a facade function: its arguments, its outcome and the
\* outcome of the function it wraps; the registry is only read.
dispatch(o, uri, parse, bo, r, d) ==
    /\ req.op = "none"
    /\ req' = [op |-> o, uri |-> uri, parse |-> parse, bo |-> bo]
    /\ result' = r
    /\ inner' = d
    /\ UNCHANGED <<SCHEME_TO_CLS_MAP, drivers, conf_stores, LOG, loaded,
                   ninst, npop>>
    /\ UNCHANGED <<shellVars, metaVars>>

facade(o, uri, parse, bo, r, d) ==
    /\ dispatch(o, uri, parse, bo, r, d)
    /\ UNCHANGED storeAux

lookup ==
    \E scheme \in AllSchemes :
        facade("get_store_from_scheme", scheme, "ok", "ok",
               get_store_from_scheme(scheme), NoInner)

get ==
    \E uri \in URIs, parse \in ParseOutcomes, bo \in BackendOutcomes :
        facade("get_from_backend", uri, parse, bo,
               get_from_backend(uri, parse, bo), NoInner)

getSize ==
    \E uri \in URIs, parse \in ParseOutcomes, bo \in BackendOutcomes :
        facade("get_size_from_backend", uri, parse, bo,
               get_size_from_backend(uri, parse, bo), NoInner)

delete ==
    \E uri \in URIs, parse \in ParseOutcomes, bo \in BackendOutcomes :
        facade("delete_from_backend", uri, parse, bo,
               delete_from_backend(uri, parse, bo), NoInner)

safeDelete ==
    \E uri \in URIs, parse \in ParseOutcomes, bo \in BackendOutcomes :
        LET d == delete_from_backend(uri, parse, bo) IN
        facade("safe_delete_from_backend", uri, parse, bo,
               safe_delete_from_backend(d), d)

add ==
    \E scheme \in AllSchemes, bo \in BackendOutcomes :
        facade("add_to_backend", scheme, "ok", bo,
               add_to_backend(scheme, bo), NoInner)

setAcls ==
    \E uri \in URIs, parse \in ParseOutcomes, bo \in BackendOutcomes :
        facade("set_acls", uri, parse, bo, set_acls(uri, parse, bo), NoInner)

\* CONF.delayed_delete is read by each call; the location parser and the
\* backend have an outcome only when the call reaches them.
scheduleOrDeleteNow ==
    \E flag \in BOOLEAN, uri \in URIs, id \in ImageIds :
      \E parse \in IF flag THEN {"ok"} ELSE ParseOutcomes,
         bo \in IF flag THEN {"ok"} ELSE BackendOutcomes :
        LET x == delete_image_from_backend(flag, file_queue, id,
                                           uri, parse, bo) IN
        /\ dispatch("delete_image_from_backend", uri, parse, bo,
                    x.result, x.inner)
        /\ delayed_delete' = flag
        /\ file_queue' = x.queue
        /\ image_id' = id
        /\ UNCHANGED <<size, image, locations, nqueried>>

checkImageLocationIsValid ==
    \E uri \in URIs, parse \in ParseOutcomes, bo \in BackendOutcomes :
        LET g == get_size_from_backend(uri, parse, bo) IN
        \E sz \in IF g.kind = "return" THEN Sizes ELSE {0} :
            /\ dispatch("_check_location_uri", uri, parse, bo,
                        _check_location_uri(g, sz), g)
            /\ size' = sz
            /\ UNCHANGED <<delayed_delete, file_queue, image_id, image,
                           locations, nqueried>>

setImageSizeIfUnset ==
    \E sz \in ImageSizes, locs \in LocationLists :
        LET x == _set_image_size(sz, locs) IN
        /\ dispatch("_set_image_size", << >>, "ok", "ok", x.result, NoInner)
        /\ image' = [size0 |-> sz, size |-> x.size]
        /\ locations' = locs
        /\ nqueried' = x.nqueried
        /\ UNCHANGED <<delayed_delete, file_queue, image_id, size>>

\* The call returns to its caller, which may then make the next call.
returned ==
    /\ req.op # "none"
    /\ req' = NoReq
    /\ result' = Ret(NoVal)
    /\ inner' = NoInner
    /\ conf_stores' = << >>
    /\ loaded' = [n \in Names |-> 0]
    /\ file_queue' = << >>
    /\ image_id' = ""
    /\ size' = 0
    /\ image' = NoImage
    /\ locations' = << >>
    /\ nqueried' = 0
    /\ delayed_delete' = FALSE
    /\ UNCHANGED <<SCHEME_TO_CLS_MAP, drivers, LOG, ninst, npop>>
    /\ UNCHANGED <<shellVars, metaVars>>

InitStore ==
    /\ SCHEME_TO_CLS_MAP = EmptyMap
    /\ drivers \in DriverEnvs
    /\ conf_stores = << >>
    /\ LOG = << >>
    /\ loaded = [n \in Names |-> 0]
    /\ ninst = 0 /\ npop = 0
    /\ req = NoReq /\ inner = NoInner /\ result = Ret(NoVal)
    /\ delayed_delete = FALSE
    /\ file_queue = << >>
    /\ image_id = ""
    /\ size = 0
    /\ image = NoImage
    /\ locations = << >>
    /\ nqueried = 0

NextStore ==
    \/ populate
    \/ lookup
    \/ get
    \/ getSize
    \/ delete
    \/ safeDelete
    \/ add
    \/ setAcls
    \/ checkImageLocationIsValid
    \/ scheduleOrDeleteNow
    \/ setImageSizeIfUnset
    \/ returned

----------------------------------------------------------------------------
(* glance/store/__init__.py: location metadata                             *)

\* A metadata value: a unicode or other leaf, None, a list of values, or a
\* dict whose items are listed in the order iteration yields its keys.
Leaf(t) == [t |-> t, items |-> << >>]
List(vs) == [t |-> "list", items |-> [j \in DOMAIN vs |-> [k |-> << >>, v |-> vs[j]]]]
Dict(ks, vs) == [t |-> "dict", items |-> [j \in DOMAIN vs |-> [k |-> ks[j], v |-> vs[j]]]]
None == Leaf("None")
MetaKeys == {<<"a">>, <<"b">>}
KeyOrders(n) ==
    {q \in [1..n -> MetaKeys] : \A a, b \in 1..n : a # b => q[a] # q[b]}

\* The values of exactly n nodes, and the sequences of values of n nodes
\* in all.
RECURSIVE TreesOf(_), Forests(_)
Forests(n) ==
    IF n = 0 THEN {<< >>}
    ELSE UNION {{<<t>> \o f : t \in TreesOf(m), f \in Forests(n - m)} :
                    m \in 1..n}
TreesOf(n) ==
    (IF n = 1 THEN {Leaf("unicode"), Leaf("int")} ELSE {})
    \cup {List(f) : f \in Forests(n - 1)}
    \cup UNION {{Dict(ks, f) : ks \in KeyOrders(Len(f))} :
                    f \in {g \in Forests(n - 1) : Len(g) <= Cardinality(MetaKeys)}}
Trees == UNION {TreesOf(n) : n \in 1..MaxNodes}

\* '%d' % n
Digits == <<"0", "1", "2", "3", "4", "5", "6", "7", "8", "9">>
RECURSIVE fmt_d(_)
fmt_d(n) ==
    IF n < 10 THEN <<Digits[n + 1]>>
    ELSE fmt_d(n \div 10) \o <<Digits[(n % 10) + 1]>>

\* '%s[%d]' % (key, ndx)
index_key(key, ndx) == key \o <<"[">> \o fmt_d(ndx) \o <<"]">>

MetaOk == [kind |-> "return", exc |-> "", key |-> << >>]
\* An exception raised while the parameter key has the value key.
MetaExc(e, key) == [kind |-> "raise", exc |-> e, key |-> key]

\* check_location_metadata(val, key=''): a dict is walked with the loop
\* variable key, so each value is checked under its own key alone; a list is
\* walked with key '%s[%d]' % (key, ndx); a leaf that is not unicode
\* reaches "raise BackendException(...)", and BackendException is a name
\* the module never binds, so a NameError is raised in its place, with no
\* message.  The key field records the parameter key at that point.
RECURSIVE check_location_metadata(_, _), check_dict(_, _), check_list(_, _, _)
check_dict(items, j) ==
    IF j > Len(items) THEN MetaOk
    ELSE LET r == check_location_metadata(items[j].v, items[j].k) IN
         IF r.kind = "raise" THEN r ELSE check_dict(items, j + 1)
check_list(items, j, key) ==
    IF j > Len(items) THEN MetaOk
    ELSE LET r == check_location_metadata(items[j].v, index_key(key, j - 1)) IN
         IF r.kind = "raise" THEN r ELSE check_list(items, j + 1, key)
check_location_metadata(val, key) ==
    IF val.t = "dict" THEN check_dict(val.items, 1)
    ELSE IF val.t = "list" THEN check_list(val.items, 1, key)
    ELSE IF val.t # "unicode" THEN MetaExc("NameError", key)
    ELSE MetaOk

\* store_add_to_backend after store.add returned metadata md: None is let
\* through; anything but a dict reaches "raise BackendException(msg)", a
\* NameError; a dict is checked inside try / except BackendException, and
\* an exception of the check makes the except clause evaluate the unbound
\* name, a NameError again.
store_add_to_backend(md) ==
    IF md = None THEN MetaOk
    ELSE IF md.t # "dict" THEN MetaExc("NameError", << >>)
    ELSE LET r == check_location_metadata(md, << >>) IN
         IF r.kind = "raise" THEN MetaExc("NameError", r.key) ELSE MetaOk

NoMetaResult == [op |-> "none", kind |-> "return", exc |-> "", key |-> << >>]
MetaResult(o, r) == [op |-> o, kind |-> r.kind, exc |-> r.exc, key |-> r.key]

validate ==
    /\ meta_result.op = "none"
    /\ \E val \in Trees :
        /\ metadata' = val
        /\ meta_result' = MetaResult("check_location_metadata",
                                     check_location_metadata(val, << >>))
    /\ UNCHANGED <<shellVars, storeVars>>

storeAdd ==
    /\ meta_result.op = "none"
    /\ \E md \in Trees \cup {None} :
        /\ metadata' = md
        /\ meta_result' = MetaResult("store_add_to_backend",
                                     store_add_to_backend(md))
    /\ UNCHANGED <<shellVars, storeVars>>

validated ==
    /\ meta_result.op # "none"
    /\ metadata' = None
    /\ meta_result' = NoMetaResult
    /\ UNCHANGED <<shellVars, storeVars>>

InitMeta == metadata = None /\ meta_result = NoMetaResult

NextMeta ==
    \/ validate
    \/ storeAdd
    \/ validated

----------------------------------------------------------------------------

\* No driver installed: the environment of the block-volume specification.
NoDrivers == [n \in Names |-> [load |-> "RuntimeError", schemes |-> {}]]

ShellInit == InitShell /\ InitStore /\ InitMeta /\ drivers = NoDrivers
StoreInit == InitShell /\ InitStore /\ InitMeta
MetaInit == InitShell /\ InitStore /\ InitMeta /\ drivers = NoDrivers

SpecShell == ShellInit /\ [][NextShell]_vars
SpecStore == StoreInit /\ [][NextStore]_vars
SpecMeta == MetaInit /\ [][NextMeta]_vars

\* The code is sequential: once a process has exited, the statement after
\* it runs, so a step that can be taken is taken.
SpecShellFair == SpecShell /\ WF_vars(NextShell)

----------------------------------------------------------------------------
(* Properties                                                              *)

CopyDone == op = "lichbd_copy" /\ pc = "done"

\* Whether a cleanup that ended with process sc lets lichbd_copy go on.
CleanupPassed(sc) ==
    IF sc.cmd = "rm -rf" THEN sc.return_code = 0
    ELSE sc.return_code \in {0, ENOENT}

\* C1 as stated: a copy whose copy command failed on all 5 attempts raises
\* ShellError with the diagnostics of the last copy attempt and has made
\* exactly 4 cleanup invocations.
C1_Original ==
    (CopyDone /\ copyFails = CopyAttempts) =>
        /\ outcome = raise_exp(lastCopy)
        /\ cleanups = CopyAttempts - 1

\* C1 amended: a copy whose copy command failed on all 5 attempts has made
\* exactly 5 cleanup invocations, one after each failed attempt, the last of
\* them after the final failed copy process; it raises ShellError, with the
\* diagnostics of the last copy attempt when that last cleanup passed and
\* with those of the cleanup command when it did not.
C1_Amended ==
    (CopyDone /\ copyFails = CopyAttempts) =>
        /\ cleanups = CopyAttempts
        /\ lastCopy.return_code # 0
        /\ lastClean.pid > lastCopy.pid
        /\ outcome = raise_exp(IF CleanupPassed(lastClean) THEN lastCopy
                               ELSE lastClean)

C1_Witness ==
    /\ CopyDone /\ copyFails = CopyAttempts
    /\ ncopy = CopyAttempts * DefaultTryNum
    /\ CleanupPassed(lastClean)
    /\ outcome = raise_exp(lastCopy)

\* C2: call_try with try_num = n runs at most n processes; a further
\* process is run only after a non-zero exit and one sleep per earlier
\* attempt; no process is run after an exit code of zero; a direct caller is
\* returned the ShellCmd of the last process run (None when none ran), after
\* a zero exit or after n attempts, and never gets an exception.
C2_Inv ==
    /\ natt <= try_num
    /\ (op = "call_try" /\ pc = "done") =>
          /\ outcome = Return(shellcmd)
          /\ natt = nproc
          /\ shellcmd.pid = natt
          /\ natt = 0 => try_num = 0
          /\ natt > 0 => (shellcmd.return_code = 0 \/ natt = try_num)

C2_Step ==
    (natt' = natt + 1 /\ natt > 0) =>
        /\ shellcmd.return_code # 0
        /\ nsleep = natt
        /\ nsleep' = nsleep

C2_RetryLoop == [](C2_Inv) /\ [][C2_Step]_vars

C2_Witness ==
    /\ op = "call_try" /\ pc = "done"
    /\ try_num = MaxTryNum /\ natt = 2
    /\ shellcmd.return_code = 0

StatDone == op \in {"lichbd_file_size", "lichbd_cluster_stat"} /\ pc = "done"

\* C3 as stated: fileSize and clusterStat spawn exactly one process, and a
\* non-zero exit of it raises.
C3_Original ==
    StatDone =>
        /\ nproc = 1
        /\ shellcmd.return_code # 0 => outcome = raise_exp(shellcmd)

\* C3 amended: fileSize and clusterStat run their command through the retry
\* loop with its default of 10 attempts: between 1 and 10 processes are
\* spawned, the last one being the first to exit with zero if any did, and
\* ShellError is raised exactly when the tenth attempt also exits non-zero.
C3_Amended ==
    StatDone =>
        /\ nproc \in 1..DefaultTryNum
        /\ shellcmd.pid = nproc
        /\ shellcmd.return_code # 0 =>
              (nproc = DefaultTryNum /\ outcome = raise_exp(shellcmd))
        /\ shellcmd.return_code = 0 => outcome.exc # "ShellError"
        /\ (op = "lichbd_cluster_stat" /\ shellcmd.return_code = 0) =>
              outcome = Return(shellcmd)

C3_Witness ==
    /\ StatDone
    /\ nproc = DefaultTryNum
    /\ outcome = raise_exp(shellcmd)

\* C4: unlink returns without raising when the last process of its command
\* ended with exit code 0 or ENOENT, and raises ShellError for that process
\* on every other exit code.
C4_Unlink ==
    (op = "lichbd_unlink" /\ pc = "done") =>
        IF shellcmd.return_code \in {0, ENOENT}
        THEN outcome.kind = "return"
        ELSE outcome = raise_exp(shellcmd)

C4_Witness ==
    /\ op = "lichbd_unlink" /\ pc = "done"
    /\ shellcmd.return_code = ENOENT
    /\ natt = DefaultTryNum
    /\ outcome.kind = "return"

\* C5: mkdir and createRaw return when the last process of their command
\* ended with exit code 0 or EEXIST, and raise ShellError for that process on
\* every other exit code.
C5_MkdirCreate ==
    (op \in {"lichbd_mkdir", "lichbd_create_raw"} /\ pc = "done") =>
        IF shellcmd.return_code \in {0, EEXIST}
        THEN outcome.kind = "return"
        ELSE outcome = raise_exp(shellcmd)

C5_Witness ==
    /\ op \in {"lichbd_mkdir", "lichbd_create_raw"} /\ pc = "done"
    /\ shellcmd.return_code = EEXIST
    /\ natt = DefaultTryNum
    /\ outcome.kind = "return"

\* The registrations of scheme s that population logged, in order.
Claims(s) == {k \in DOMAIN LOG : s \in LOG[k].schemes}
LastClaimer(s) ==
    LOG[CHOOSE k \in Claims(s) : \A j \in Claims(s) : j <= k].store

\* C6: a scheme that some backend claimed during population looks up to the
\* backend that claimed it last, and a scheme that none claimed looks up to
\* UnknownScheme; the lookup call reports just that.
C6_Lookup ==
    /\ \A s \in AllSchemes :
          get_store_from_scheme(s) =
              IF Claims(s) # {} THEN Ret(LastClaimer(s))
              ELSE Exc("UnknownScheme")
    /\ req.op = "get_store_from_scheme" =>
          result = IF Claims(req.uri) # {} THEN Ret(LastClaimer(req.uri))
                   ELSE Exc("UnknownScheme")

C6_Witness ==
    /\ req.op = "get_store_from_scheme"
    /\ Cardinality(Claims(req.uri)) = 2
    /\ result = Ret(LOG[2].store)
    /\ LOG[1].store # LOG[2].store

Configured == Range(conf_stores)

\* C7 as stated: population over a list that holds a loadable backend with
\* no schemes fails with BackendException.
C7_EmptySchemes ==
    (/\ req.op = "create_stores"
     /\ \E n \in Configured :
           drivers[n].load = "ok" /\ drivers[n].schemes = {})
        => result = Exc("BackendException")

\* C8 as stated: population over a list with no scheme-less backend loads
\* every distinct configured name once, skips the names that fail to load,
\* and returns the number of names that loaded.
C8_Population ==
    (/\ req.op = "create_stores"
     /\ \A n \in Configured :
           drivers[n].load = "ok" => drivers[n].schemes # {})
        => /\ \A n \in Names : loaded[n] = IF n \in Configured THEN 1 ELSE 0
           /\ result = Ret([name |-> "store_count",
                            id |-> Cardinality({n \in Configured :
                                        drivers[n].load = "ok"})])

\* The last facade call reached a backend method that raised
\* NotImplementedError, or would have, had the facade called it.
NotSupportedCase ==
    /\ req.bo = "NotImplementedError"
    /\ req.parse = "ok"
    /\ IF req.op = "add_to_backend"
       THEN get_store_from_scheme(req.uri).kind = "return"
       ELSE /\ req.op \in {"get_from_backend", "get_size_from_backend",
                           "delete_from_backend", "set_acls"}
            /\ get_store_from_uri(req.uri).kind = "return"

\* C9 as stated: a backend's not-implemented signal becomes
\* StoreGetNotSupported in get, StoreDeleteNotSupported in delete and
\* StoreAddNotSupported in add, and reaches the caller of no facade
\* operation as a raw NotImplementedError.
C9_Translated ==
    NotSupportedCase =>
        /\ req.op = "get_from_backend" => result = Exc("StoreGetNotSupported")
        /\ req.op = "delete_from_backend" =>
              result = Exc("StoreDeleteNotSupported")
        /\ req.op = "add_to_backend" => result = Exc("StoreAddNotSupported")
        /\ result.exc # "NotImplementedError"

\* C10 as stated: safeDelete returns normally when its delete failed with
\* NotFound or StoreDeleteNotSupported and hands every other failure of the
\* delete to its caller unchanged.
C10_SafeDelete ==
    (req.op = "safe_delete_from_backend" /\ inner.kind = "raise") =>
        IF inner.exc \in {"NotFound", "StoreDeleteNotSupported"}
        THEN result.kind = "return"
        ELSE result = inner

\* C16: call with raise-on-failure raises ShellError carrying the command,
\* exit code and captured output of its one process exactly when that exit
\* code is non-zero, and returns the captured result when it is zero; without
\* raise-on-failure it returns the result whatever the exit code.
C16_Call ==
    (op = "call" /\ pc = "done") =>
        /\ nproc = 1 /\ shellcmd.pid = 1
        /\ outcome = IF exception /\ shellcmd.return_code # 0
                     THEN raise_exp(shellcmd)
                     ELSE Return(shellcmd)

C16_Witness ==
    /\ op = "call" /\ pc = "done"
    /\ exception /\ shellcmd.return_code = ENOENT
    /\ outcome = raise_exp(shellcmd)

InCopy == op = "lichbd_copy"
CopyReturned == InCopy /\ pc = "ret" /\ stage = "lich --copy"
UnlinkReturned == InCopy /\ pc = "ret" /\ stage = "lich --unlink"

\* C18 (implicit): lichbd_copy returns at the first copy attempt that ends
\* with exit code 0, and runs no cleanup and no further process after it;
\* every cleanup follows a failed copy attempt and names the destination
\* path (without its ":" marker), never the source.
C18_Inv ==
    /\ InCopy => cleanups = copyFails
    /\ (InCopy /\ cleanups > 0) =>
          /\ copycmd.return_code # 0 \/ (pc = "done" /\ outcome.kind = "return")
          /\ cleanTarget = lstrip(dst_path, Colon)
          /\ cleanTarget # SrcPath
    /\ (InCopy /\ lastClean # NoneCmd) => cleanups > 0
    /\ (CopyDone /\ outcome.kind = "return") =>
          /\ outcome.val = lastCopy
          /\ lastCopy.return_code = 0
          /\ lastCopy.pid = nproc
          /\ lastClean.pid < lastCopy.pid
          /\ ncopy = DefaultTryNum * cleanups + natt

C18_Step ==
    /\ (CopyReturned /\ shellcmd.return_code = 0) =>
          /\ pc' = "done"
          /\ outcome' = Return(shellcmd)
          /\ cleanups' = cleanups
          /\ nproc' = nproc
    /\ (InCopy /\ cleanups' # cleanups) =>
          /\ CopyReturned /\ shellcmd.return_code # 0
          /\ cleanups' = cleanups + 1
          /\ cleanTarget' = lstrip(dst_path, Colon)

C18_CopySuccess == [](C18_Inv) /\ [][C18_Step]_vars

C18_Witness ==
    /\ CopyDone /\ outcome.kind = "return"
    /\ cleanups = 2
    /\ dst_path # PlainPath

\* The last process of a cleanup, sc, made the cleanup fail.
CleanupFailed(sc) ==
    \/ sc.cmd = "rm -rf" /\ sc.return_code # 0
    \/ sc.cmd = "lich --unlink" /\ sc.return_code \notin {0, ENOENT}

\* C19 (implicit): when a cleanup of lichbd_copy fails, lichbd_copy raises
\* at once with the diagnostics of the cleanup command and runs no further
\* process; an unlink cleanup that ends with ENOENT lets the next copy
\* attempt start.
C19_Inv ==
    (CopyDone /\ cleanups > 0 /\ CleanupFailed(lastClean)) =>
        /\ outcome = raise_exp(lastClean)
        /\ lastClean.pid = nproc
        /\ lastCopy.pid < lastClean.pid

C19_Step ==
    /\ (UnlinkReturned /\ CleanupFailed(shellcmd)) =>
          /\ pc' = "done"
          /\ outcome' = raise_exp(shellcmd)
          /\ nproc' = nproc /\ ncopy' = ncopy
    /\ (UnlinkReturned /\ shellcmd.return_code = ENOENT
            /\ outer + 1 < CopyAttempts) =>
          /\ pc' = "try" /\ stage' = "lich --copy"
          /\ outcome' = NoOutcome
    /\ (InCopy /\ pc = "rm" /\ lastClean'.return_code # 0) =>
          /\ pc' = "done"
          /\ outcome' = raise_exp(lastClean')
          /\ nproc' = nproc + 1 /\ ncopy' = ncopy

C19_CleanupFailure == [](C19_Inv) /\ [][C19_Step]_vars

C19_Witness ==
    /\ CopyDone /\ copyFails = 2
    /\ lastClean.cmd = "lich --unlink" /\ lastClean.return_code = EEXIST
    /\ outcome = raise_exp(lastClean)

\* C20 (implicit): every block-volume operation ends with a return or a
\* raise; call_try runs at most try_num processes (10 by default), and
\* lichbd_copy makes at most 5 outer attempts, at most 50 executions of the
\* copy command and at most 5 cleanups of at most 10 processes each.
C20_Bounds ==
    /\ natt <= try_num
    /\ op \notin {"none", "call", "call_try"} => try_num = DefaultTryNum
    /\ outer <= CopyAttempts
    /\ copyFails <= CopyAttempts
    /\ ncopy <= CopyAttempts * DefaultTryNum
    /\ cleanups <= CopyAttempts
    /\ nclean <= DefaultTryNum

C20_Terminates ==
    /\ [](C20_Bounds)
    /\ (pc # "idle") ~> (pc = "done" /\ outcome.kind \in {"return", "raise"})

C20_Witness ==
    /\ CopyDone
    /\ ncopy = CopyAttempts * DefaultTryNum
    /\ cleanups = CopyAttempts
    /\ nclean = DefaultTryNum

ScheduleCalled == req.op = "delete_image_from_backend"

\* C11: delete_image_from_backend with the delayed-delete flag on hands
\* exactly the entry (image_id, uri) to the scrub queue and does not run the
\* backend delete; with the flag off it hands nothing to the queue and its
\* outcome is that of safe_delete_from_backend around delete_from_backend.
C11_ScheduleOrDelete ==
    ScheduleCalled =>
        IF delayed_delete
        THEN /\ file_queue = <<[image_id |-> image_id, uri |-> req.uri]>>
             /\ inner = NoInner
             /\ result = Ret(NoVal)
        ELSE /\ file_queue = << >>
             /\ inner = delete_from_backend(req.uri, req.parse, req.bo)
             /\ result.kind =
                    safe_delete_from_backend(inner).kind
             /\ result.exc = safe_delete_from_backend(inner).exc

C11_Witness ==
    /\ ScheduleCalled /\ delayed_delete
    /\ get_store_from_uri(req.uri).kind = "return"
    /\ req.bo = "ok" /\ req.parse = "ok"
    /\ image_id = "i2"
    /\ Len(file_queue) = 1

CheckCalled == req.op = "_check_location_uri"
\* get_size_from_backend failed in one of the ways _check_location_uri
\* catches.
CaughtBySizeCheck ==
    inner.kind = "raise" /\ inner.exc \in {"UnknownScheme", "NotFound"}
InvalidLocation ==
    \/ inner.kind = "return" /\ size <= 0
    \/ CaughtBySizeCheck

\* C13 as stated: _check_location_uri raises BadStoreUri when the size is
\* <= 0 and when get_size_from_backend fails with UnknownScheme or with
\* NotFound, and for every other outcome of get_size_from_backend it does
\* not raise BadStoreUri.
C13_Original ==
    CheckCalled =>
        (InvalidLocation <=> (result.kind = "raise" /\ result.exc = "BadStoreUri"))

\* C13 amended: _check_location_uri raises BadStoreUri when the size is
\* <= 0 and when get_size_from_backend fails with UnknownScheme or with
\* NotFound; it returns normally when the size is > 0; every other failure
\* of get_size_from_backend, a BadStoreUri of the location parser included,
\* leaves it unchanged.
C13_Amended ==
    CheckCalled =>
        /\ InvalidLocation => result = Exc("BadStoreUri")
        /\ (inner.kind = "return" /\ size > 0) => result = Ret(NoVal)
        /\ (inner.kind = "raise" /\ ~CaughtBySizeCheck) => result = inner

C13_Witness ==
    /\ CheckCalled
    /\ inner = Exc("UnknownScheme")
    /\ result = Exc("BadStoreUri")

\* The index of the first location reporting a non-zero size, 0 if none.
RECURSIVE FirstNonZero(_, _)
FirstNonZero(locs, j) ==
    IF j > Len(locs) THEN 0
    ELSE IF locs[j] # 0 THEN j
    ELSE FirstNonZero(locs, j + 1)

\* C14: _set_image_size on an image whose size is set and non-zero queries
\* no location and leaves the size; otherwise it queries the locations in
\* order up to the first that reports a non-zero size, sets the size to
\* that result, and leaves the size as it was when every location reports
\* zero.
C14_SetImageSize ==
    req.op = "_set_image_size" =>
        /\ result.kind = "return"
        /\ IF truthy(image.size0)
           THEN nqueried = 0 /\ image.size = image.size0
           ELSE LET k == FirstNonZero(locations, 1) IN
                IF k = 0
                THEN nqueried = Len(locations) /\ image.size = image.size0
                ELSE nqueried = k /\ image.size = Size(locations[k])

\* C15: add_to_backend for a registered scheme whose store accepts the data
\* succeeds (and get and get_size on the location it returned then succeed
\* with the same size, and get_size fails with NotFound after a delete).
C15_AddThenGet ==
    (/\ req.op = "add_to_backend"
     /\ get_store_from_scheme(req.uri).kind = "return"
     /\ req.bo = "ok")
        => result.kind = "return"

\* C17: no facade call (and no return from one) changes the registry: a
\* step that is not a create_stores leaves SCHEME_TO_CLS_MAP, and with it
\* the outcome of get_store_from_scheme for every scheme, as it was.
C17_Step ==
    req'.op # "create_stores" =>
        /\ SCHEME_TO_CLS_MAP' = SCHEME_TO_CLS_MAP
        /\ \A scheme \in AllSchemes :
              get_store_from_scheme(scheme)' = get_store_from_scheme(scheme)

C17_ReadOnly == [][C17_Step]_vars

C17_Witness ==
    /\ npop > 0
    /\ req.op = "get_store_from_scheme"
    /\ req.uri \in DOMAIN SCHEME_TO_CLS_MAP
    /\ result = Ret(SCHEME_TO_CLS_MAP[req.uri].store)
    /\ Cardinality(DOMAIN SCHEME_TO_CLS_MAP) = 2

\* Whether a metadata value contains a leaf that is not unicode.
RECURSIVE HasNonText(_)
HasNonText(val) ==
    IF val.t \in {"dict", "list"}
    THEN \E j \in 1..Len(val.items) : HasNonText(val.items[j].v)
    ELSE val.t # "unicode"

\* Whether the first non-unicode leaf of val, in the order of the walk, lies
\* below a list; below tells whether val itself does.
RECURSIVE FirstBadBelowList(_, _), FirstBadItem(_, _)
FirstBadItem(items, j) ==
    IF HasNonText(items[j].v) THEN j ELSE FirstBadItem(items, j + 1)
FirstBadBelowList(val, below) ==
    IF val.t \in {"dict", "list"}
    THEN FirstBadBelowList(val.items[FirstBadItem(val.items, 1)].v,
                           below \/ val.t = "list")
    ELSE below

\* C12: validating a metadata value that contains a non-unicode leaf fails
\* with BackendException, and when that leaf lies below a list the key the
\* error names includes the list index.
C12_Validation ==
    (meta_result.op = "check_location_metadata" /\ HasNonText(metadata)) =>
        /\ meta_result.kind = "raise"
        /\ meta_result.exc = "BackendException"
        /\ FirstBadBelowList(metadata, FALSE) =>
              \E j \in 1..Len(meta_result.key) : meta_result.key[j] = "["

====
